---------------------------- MODULE Spec2Model ----------------------------
(***************************************************************************)
(* A model of egs/ljspeech/TTS/vits/tokenizer.py: the Tokenizer class that *)
(* loads a token table, rewrites mixed Latin/Chinese text into a flat      *)
(* token sequence (convert_char_to_pinyin) and maps tokens to ids          *)
(* (tokens_to_token_ids, texts_to_token_ids).                              *)
(*                                                                         *)
(* A Python str is a sequence of code points (naturals); a token is a str. *)
(***************************************************************************)
EXTENDS Integers, Sequences, FiniteSets, TLC

VARIABLES
    pc,               \* position of the running method / "failed" / "done"
    err,              \* name of the exception raised, "" when none
    lines,            \* token-file lines consumed so far, each a list of fields
    token2id,         \* self.token2id
    pad_id, sos_id, eos_id, space_id, vocab_size,   \* None is modelled as -1
    polyphone,        \* argument of convert_char_to_pinyin
    lang,             \* argument of texts_to_token_ids
    entry,            \* the public method that was called
    texts,            \* segmenter answers for the texts consumed so far
    seg,              \* the segment handled by the last loop iteration
    prev,             \* char_list before the last loop iteration
    char_list,        \* char_list of the text being converted
    final_text_list,  \* final_text_list of convert_char_to_pinyin
    calls,            \* arguments lazy_pinyin received in the last iteration
    tokens_list,      \* argument of tokens_to_token_ids
    flags,            \* intersperse_blank, add_sos, add_eos
    ret               \* the value returned by the public method

vars == <<pc, err, lines, token2id, pad_id, sos_id, eos_id, space_id,
          vocab_size, polyphone, lang, entry, texts, seg, prev, char_list,
          final_text_list, calls, tokens_list, flags, ret>>

loadVars == <<pc, err, lines, token2id, pad_id, sos_id, eos_id, space_id,
              vocab_size>>
tokenizerVars == <<token2id, pad_id, sos_id, eos_id, space_id, vocab_size>>
textVars == <<polyphone, lang, entry, texts, seg, prev, char_list,
              final_text_list, calls>>
callVars == <<tokens_list, flags, ret>>

-----------------------------------------------------------------------------
(* Bounds of the model.                                                    *)
MaxLines == 5        \* lines of a token file
MaxChars == 3        \* characters of one batch of texts, all texts together
MaxTexts == 2        \* texts of one batch
MaxLen == 3          \* tokens of one tokens_list, all utterances together
MaxBatch == 2        \* utterances of one tokens_list

-----------------------------------------------------------------------------
(* Code points.                                                            *)
chSpace == 32
chQuote == 34
chDollar == 36
chApos == 39
chLParen == 40
chRParen == 41
chComma == 44
chZero == 48
chOne == 49
chTwo == 50
chThree == 51
chColon == 58
chSemi == 59
chCaret == 94
chUnder == 95
chA == 97
chH == 104
chI == 105
chN == 110
chO == 111
chEAcute == 233          \* U+00E9, two bytes in UTF-8, ord < 256
chLSQuote == 8216        \* U+2018
chRSQuote == 8217        \* U+2019
chLDQuote == 8220        \* U+201C
chRDQuote == 8221        \* U+201D
chNi == 20320            \* U+4F60
chHao == 22909           \* U+597D
chFwLParen == 65288      \* U+FF08
chFwRParen == 65289      \* U+FF09
chFwComma == 65292       \* U+FF0C, three bytes, above U+9FFF
chFwColon == 65306       \* U+FF1A
chFwSemi == 65307        \* U+FF1B
chExtB == 131072         \* U+20000, four bytes

None == -1

Str(c) == <<c>>

-----------------------------------------------------------------------------
(* Tokenizer.__init__: the token file.                                     *)

IsDigit(c) == c >= chZero /\ c <= chZero + 9

\* int(s) succeeds on a non-empty string of decimal digits.
IsInt(s) == Len(s) > 0 /\ \A i \in 1..Len(s) : IsDigit(s[i])

RECURSIVE IntOf(_)
IntOf(s) ==
    IF s = <<>> THEN 0
    ELSE 10 * IntOf(SubSeq(s, 1, Len(s) - 1)) + (s[Len(s)] - chZero)

EmptyDict == [t \in {} |-> 0]

DictSet(m, k, v) == [t \in DOMAIN m \cup {k} |-> IF t = k THEN v ELSE m[t]]

\* assert token not in self.token2id, token
AssertFreshOff(m, token) == TRUE
AssertFresh(m, token) == token \notin DOMAIN m

\* One iteration of the loop over f.readlines(); info = line.rstrip().split().
\* Returns the exception raised ("" when none) and the updated mapping.
ParseLine(m, info) ==
    IF Len(info) = 1
    THEN IF ~IsInt(info[1]) THEN [err |-> "ValueError", token2id |-> m]
         ELSE IF ~AssertFresh(m, Str(chSpace))
              THEN [err |-> "AssertionError", token2id |-> m]
              ELSE [err |-> "", token2id |-> DictSet(m, Str(chSpace), IntOf(info[1]))]
    ELSE IF Len(info) = 0 THEN [err |-> "IndexError", token2id |-> m]
         ELSE IF ~IsInt(info[2]) THEN [err |-> "ValueError", token2id |-> m]
              ELSE IF ~AssertFresh(m, info[1])
                   THEN [err |-> "AssertionError", token2id |-> m]
                   ELSE [err |-> "", token2id |-> DictSet(m, info[1], IntOf(info[2]))]

Reserved == {Str(chUnder), Str(chCaret), Str(chDollar), Str(chSpace)}

\* self.token2id["_"], ["^"], ["$"], [" "]: KeyError when one is missing.
HasReserved(m) == Reserved \subseteq DOMAIN m

Fields == {Str(chUnder), Str(chCaret), Str(chDollar), Str(chZero), Str(chOne)}

\* Lines after rstrip().split(): no field, one field, two fields, and two
\* lines with a third field.
Lines ==
    {<<>>} \cup [1..1 -> Fields] \cup [1..2 -> Fields]
      \cup {<<Str(chUnder), Str(chOne), Str(chZero)>>,
            <<Str(chOne), Str(chCaret), Str(chZero)>>}

InitLoad ==
    /\ pc = "parsing"
    /\ err = ""
    /\ lines = <<>>
    /\ token2id = EmptyDict
    /\ pad_id = None /\ sos_id = None /\ eos_id = None /\ space_id = None
    /\ vocab_size = None
    /\ polyphone = FALSE /\ lang = "" /\ entry = "__init__"
    /\ texts = <<>> /\ seg = <<>> /\ prev = <<>> /\ char_list = <<>>
    /\ final_text_list = <<>> /\ calls = <<>>
    /\ tokens_list = <<>> /\ flags = <<FALSE, FALSE, FALSE>> /\ ret = <<>>

\* Lines 43-52, one line of the file.
ReadLine ==
    /\ pc = "parsing"
    /\ Len(lines) < MaxLines
    /\ \E info \in Lines :
         LET r == ParseLine(token2id, info) IN
           /\ lines' = Append(lines, info)
           /\ token2id' = r.token2id
           /\ err' = r.err
           /\ pc' = IF r.err = "" THEN "parsing" ELSE "failed"
    /\ UNCHANGED <<pad_id, sos_id, eos_id, space_id, vocab_size>>
    /\ UNCHANGED <<textVars, callVars>>

\* Lines 55-60, after the last line of the file.
EndOfFile ==
    /\ pc = "parsing"
    /\ IF HasReserved(token2id)
       THEN /\ pad_id' = token2id[Str(chUnder)]
            /\ sos_id' = token2id[Str(chCaret)]
            /\ eos_id' = token2id[Str(chDollar)]
            /\ space_id' = token2id[Str(chSpace)]
            /\ vocab_size' = Cardinality(DOMAIN token2id)
            /\ pc' = "done"
            /\ err' = ""
       ELSE /\ pc' = "failed"
            /\ err' = "KeyError"
            /\ UNCHANGED <<pad_id, sos_id, eos_id, space_id, vocab_size>>
    /\ UNCHANGED <<lines, token2id, textVars, callVars>>

NextLoad == ReadLine \/ EndOfFile

SpecLoad == InitLoad /\ [][NextLoad]_vars

-----------------------------------------------------------------------------
(* The whole of __init__ as a function of the file's lines, used to build  *)
(* the Tokenizer the other methods run on.                                 *)

RECURSIVE ParseLines(_, _)
ParseLines(m, ls) ==
    IF ls = <<>> THEN [err |-> "", token2id |-> m]
    ELSE LET r == ParseLine(m, Head(ls)) IN
           IF r.err # "" THEN r ELSE ParseLines(r.token2id, Tail(ls))

sNi3 == <<chN, chI, chThree>>
sNi2 == <<chN, chI, chTwo>>
sHao3 == <<chH, chA, chO, chThree>>
sHao2 == <<chH, chA, chO, chTwo>>

\* Token files the Tokenizer of the text methods is built from.  Both list
\* the four reserved tokens, "a", "ni3" and "hao3"; "ni2", "hao2", ":" and
\* every non-ASCII character are out of vocabulary.
TokenFileA ==
    << <<Str(chUnder), Str(chZero)>>, <<Str(chCaret), Str(chOne)>>,
       <<Str(chDollar), Str(chTwo)>>, <<Str(chThree)>>,
       <<Str(chA), <<chOne, chZero>>>>, <<sNi3, <<chOne, chOne>>>>,
       <<sHao3, <<chOne, chTwo>>>> >>

TokenFileB ==
    << <<Str(chTwo)>>, <<Str(chDollar), Str(chZero)>>,
       <<Str(chUnder), Str(chThree)>>, <<Str(chCaret), Str(chOne)>>,
       <<sHao3, <<chTwo, chOne>>>>, <<Str(chA), <<chTwo, chZero>>>>,
       <<sNi3, <<chTwo, chOne>>>> >>

TokenFiles == {TokenFileA, TokenFileB}

\* The state __init__ leaves behind for a file that loads.
Loaded(file) ==
    LET m == ParseLines(EmptyDict, file).token2id IN
      /\ token2id = m
      /\ pad_id = m[Str(chUnder)]
      /\ sos_id = m[Str(chCaret)]
      /\ eos_id = m[Str(chDollar)]
      /\ space_id = m[Str(chSpace)]
      /\ vocab_size = Cardinality(DOMAIN m)

-----------------------------------------------------------------------------
(* convert_char_to_pinyin.                                                 *)

\* len(bytes(c, "UTF-8")) of one character.
Utf8Len(c) ==
    IF c < 128 THEN 1 ELSE IF c < 2048 THEN 2 ELSE IF c < 65536 THEN 3 ELSE 4

RECURSIVE ByteLen(_)
ByteLen(s) == IF s = <<>> THEN 0 ELSE Utf8Len(Head(s)) + ByteLen(Tail(s))

\* custom_trans
TransChar(c) ==
    CASE c = chFwLParen -> chLParen
      [] c = chFwRParen -> chRParen
      [] c = chFwColon -> chColon
      [] c = chFwSemi -> chComma
      [] c = chSemi -> chComma
      [] c = chLDQuote -> chQuote
      [] c = chRDQuote -> chQuote
      [] c = chLSQuote -> chApos
      [] c = chRSQuote -> chApos
      [] OTHER -> c

\* text.translate(custom_trans)
Translate(s) == [i \in 1..Len(s) |-> TransChar(s[i])]

U3100 == 12544
U9FFF == 40959

is_chinese_any(c) == Utf8Len(c) = 3
is_chinese(c) == U3100 <= c /\ c <= U9FFF

\* t in s, for Python strings.
InStr(t, s) ==
    \E i \in 0..(Len(s) - Len(t)) : SubSeq(s, i + 1, i + Len(t)) = t

NoSepAfter == <<chSpace, chColon, chApos, chQuote>>      \* " :'\""

\* lazy_pinyin(s, style=Style.TONE3, tone_sandhi=True), one string per
\* character: a Chinese character gives its syllable with a tone digit, and
\* a third tone before another third tone becomes a second tone; any other
\* character is returned as it is.
Pinyin(c, third) ==
    CASE c = chNi -> IF third THEN sNi3 ELSE sNi2
      [] c = chHao -> IF third THEN sHao3 ELSE sHao2
      [] OTHER -> Str(c)

IsThirdTone(c) == c \in {chNi, chHao}

lazy_pinyin(s) ==
    [i \in 1..Len(s) |->
        Pinyin(s[i], ~(i < Len(s) /\ IsThirdTone(s[i]) /\ IsThirdTone(s[i + 1])))]

\* Line 80: whether " " is put before a segment of single-byte characters.
InjectAlways(cl, s) == cl # <<>> /\ ~InStr(cl[Len(cl)], NoSepAfter)
InjectBefore(cl, s) ==
    cl # <<>> /\ ByteLen(s) > 1 /\ ~InStr(cl[Len(cl)], NoSepAfter)

\* Line 83: the branch of "pure east asian characters".
TakesCJKBranchAnyFlag(poly, s) == ByteLen(s) = 3 * Len(s)
TakesCJKBranch(poly, s) == poly /\ ByteLen(s) = 3 * Len(s)

\* Lines 85-88.
RECURSIVE CJKLoop(_, _, _, _)
CJKLoop(cl, s, s_, i) ==
    IF i > Len(s) THEN cl
    ELSE CJKLoop(Append(IF is_chinese(s[i]) THEN Append(cl, Str(chSpace)) ELSE cl,
                        s_[i]),
                 s, s_, i + 1)

\* Lines 90-97; st holds char_list and the arguments given to lazy_pinyin.
RECURSIVE MixedLoop(_, _, _)
MixedLoop(st, s, i) ==
    IF i > Len(s) THEN st
    ELSE LET c == s[i] IN
      MixedLoop(
        IF c < 256 THEN [st EXCEPT !.char_list = Append(@, Str(c))]
        ELSE IF is_chinese(c)
             THEN [char_list |-> Append(st.char_list, Str(chSpace)) \o lazy_pinyin(Str(c)),
                   calls |-> Append(st.calls, Str(c))]
             ELSE [st EXCEPT !.char_list = Append(@, Str(c))],
        s, i + 1)

\* Lines 78-97: one segment of jieba.cut(text).
RewriteSegment(cl, s, poly) ==
    IF ByteLen(s) = Len(s)
    THEN [char_list |->
             (IF InjectBefore(cl, s) THEN Append(cl, Str(chSpace)) ELSE cl)
               \o [i \in 1..Len(s) |-> Str(s[i])],
          calls |-> <<>>]
    ELSE IF TakesCJKBranch(poly, s)
         THEN [char_list |-> CJKLoop(cl, s, lazy_pinyin(s), 1), calls |-> <<s>>]
         ELSE MixedLoop([char_list |-> cl, calls |-> <<>>], s, 1)

\* Line 75: char_list = []
KeepCharList(old) == old
FreshCharList(old) == <<>>

-----------------------------------------------------------------------------
(* tokens_to_token_ids.                                                    *)

\* utils.intersperse(sequence, item): item between every two adjacent
\* elements of sequence; a sequence of length 0 or 1 is returned unchanged.
IntersperseBothEnds(ids, item) ==
    [i \in 1..(2 * Len(ids) + 1) |-> IF i % 2 = 0 THEN ids[i \div 2] ELSE item]
Intersperse(ids, item) ==
    IF Len(ids) <= 1 THEN ids
    ELSE [i \in 1..(2 * Len(ids) - 1) |->
             IF i % 2 = 1 THEN ids[(i + 1) \div 2] ELSE item]

\* Lines 184-188: the ids of the tokens the mapping m knows, in order.
RECURSIVE MapTokensNoSkip(_, _)
MapTokensNoSkip(m, tokens) ==
    IF tokens = <<>> THEN <<>>
    ELSE <<(IF Head(tokens) \in DOMAIN m THEN m[Head(tokens)] ELSE None)>>
           \o MapTokensNoSkip(m, Tail(tokens))
RECURSIVE MapTokensReversed(_, _)
MapTokensReversed(m, tokens) ==
    IF tokens = <<>> THEN <<>>
    ELSE MapTokensReversed(m, Tail(tokens))
           \o (IF Head(tokens) \in DOMAIN m THEN <<m[Head(tokens)]>> ELSE <<>>)
RECURSIVE MapTokens(_, _)
MapTokens(m, tokens) ==
    IF tokens = <<>> THEN <<>>
    ELSE (IF Head(tokens) \in DOMAIN m THEN <<m[Head(tokens)]>> ELSE <<>>)
           \o MapTokens(m, Tail(tokens))

\* Lines 190-191.
ApplyBlankWithSos(ids, fl) == IF fl[1] THEN Intersperse(ids, sos_id) ELSE ids
ApplyBlank(ids, fl) == IF fl[1] THEN Intersperse(ids, pad_id) ELSE ids

\* Lines 183-195 for one utterance; fl = <<intersperse_blank, add_sos, add_eos>>.
TokenIdsSosFirst(tokens, fl) ==
    LET mapped == MapTokens(token2id, tokens)
        withSos == IF fl[2] THEN <<sos_id>> \o mapped ELSE mapped
        withEos == IF fl[3] THEN withSos \o <<eos_id>> ELSE withSos
    IN  ApplyBlank(withEos, fl)
TokenIds(tokens, fl) ==
    LET mapped == MapTokens(token2id, tokens)
        blanked == ApplyBlank(mapped, fl)
        withSos == IF fl[2] THEN <<sos_id>> \o blanked ELSE blanked
    IN  IF fl[3] THEN withSos \o <<eos_id>> ELSE withSos

\* Lines 180-199.
TokensToTokenIds(tl, fl) == [i \in 1..Len(tl) |-> TokenIds(tl[i], fl)]

-----------------------------------------------------------------------------
(* convert_char_to_pinyin and texts_to_token_ids, one loop iteration per   *)
(* step.  The segmenter jieba.cut is an oracle: each step draws the next   *)
(* segment, given by the characters it had before text.translate.          *)

\* Characters of the texts given to convert_char_to_pinyin and of those
\* given to texts_to_token_ids.
WideChars ==
    {chA, chSpace, chLDQuote, chFwColon, chEAcute, chNi, chFwComma, chExtB}
PipeChars == {chA, chNi, chHao, chFwComma}

TextChars(e) == IF e = "convert_char_to_pinyin" THEN WideChars ELSE PipeChars

ChineseLangs == {"cmn", "zh-cn"}

RECURSIVE TotalLen(_)
TotalLen(ll) == IF ll = <<>> THEN 0 ELSE Len(Head(ll)) + TotalLen(Tail(ll))

\* Characters of the texts consumed so far.
RECURSIVE TotalChars(_)
TotalChars(tt) ==
    IF tt = <<>> THEN 0 ELSE TotalLen(Head(tt)) + TotalChars(Tail(tt))

InitText ==
    /\ pc = "for_text"
    /\ err = ""
    /\ lines = <<>>
    /\ Loaded(TokenFileA)
    /\ \/ /\ entry = "convert_char_to_pinyin"
          /\ polyphone \in BOOLEAN
          /\ lang = ""
          /\ flags = <<FALSE, FALSE, FALSE>>
       \/ /\ entry = "texts_to_token_ids"
          /\ polyphone = TRUE
          /\ lang \in ChineseLangs \cup {"en"}
          /\ flags = <<TRUE, FALSE, FALSE>>
    /\ texts = <<>> /\ seg = <<>> /\ prev = <<>> /\ char_list = <<>>
    /\ final_text_list = <<>> /\ calls = <<>>
    /\ tokens_list = <<>> /\ ret = <<>>

\* Line 126 with a lang outside the two tags: nothing is returned.
OtherLang ==
    /\ pc = "for_text"
    /\ entry = "texts_to_token_ids"
    /\ lang \notin ChineseLangs
    /\ pc' = "done"
    /\ ret' = None
    /\ UNCHANGED <<err, lines, tokenizerVars, textVars, tokens_list, flags>>

InLoop == entry = "convert_char_to_pinyin" \/ lang \in ChineseLangs

\* Lines 74-76: the next text of text_list.
BeginText ==
    /\ pc = "for_text"
    /\ InLoop
    /\ Len(texts) < MaxTexts
    /\ texts' = Append(texts, <<>>)
    /\ char_list' = FreshCharList(char_list)
    /\ seg' = <<>> /\ prev' = <<>> /\ calls' = <<>>
    /\ pc' = "for_seg"
    /\ UNCHANGED <<err, lines, tokenizerVars, polyphone, lang, entry,
                   final_text_list, callVars>>

\* Lines 77-97: the next segment of the text.
ProcessSegment ==
    /\ pc = "for_seg"
    /\ \E n \in 1..(MaxChars - TotalChars(texts)) :
       \E raw \in [1..n -> TextChars(entry)] :
         LET s == Translate(raw)
             r == RewriteSegment(char_list, s, polyphone)
         IN  /\ texts' = [texts EXCEPT ![Len(texts)] = Append(@, raw)]
             /\ seg' = s
             /\ prev' = char_list
             /\ char_list' = r.char_list
             /\ calls' = r.calls
    /\ UNCHANGED <<pc, err, lines, tokenizerVars, polyphone, lang, entry,
                   final_text_list, callVars>>

\* Line 98.
EndText ==
    /\ pc = "for_seg"
    /\ final_text_list' = Append(final_text_list, char_list)
    /\ pc' = "for_text"
    /\ UNCHANGED <<err, lines, tokenizerVars, polyphone, lang, entry, texts,
                   seg, prev, char_list, calls, callVars>>

\* Line 100, called directly.
ReturnConvert ==
    /\ pc = "for_text"
    /\ entry = "convert_char_to_pinyin"
    /\ ret' = final_text_list
    /\ pc' = "done"
    /\ UNCHANGED <<err, lines, tokenizerVars, textVars, tokens_list, flags>>

\* Lines 127-128.
ReturnTokenIds ==
    /\ pc = "for_text"
    /\ entry = "texts_to_token_ids"
    /\ lang \in ChineseLangs
    /\ \E fl \in BOOLEAN \X BOOLEAN \X BOOLEAN :
         /\ flags' = fl
         /\ tokens_list' = final_text_list
         /\ ret' = TokensToTokenIds(final_text_list, fl)
    /\ pc' = "done"
    /\ UNCHANGED <<err, lines, tokenizerVars, textVars>>

NextText ==
    \/ OtherLang
    \/ BeginText
    \/ ProcessSegment
    \/ EndText
    \/ ReturnConvert
    \/ ReturnTokenIds

SpecText == InitText /\ [][NextText]_vars

-----------------------------------------------------------------------------
(* tokens_to_token_ids called directly.                                    *)

Tokens == {Str(chA), Str(chUnder), sNi2}

\* Lists of at most b utterances holding at most n tokens together.
RECURSIVE TokenListsUpTo(_, _)
TokenListsUpTo(b, n) ==
    IF b = 0 THEN {<<>>}
    ELSE {<<>>} \cup
         UNION {UNION {{<<u>> \o rest : rest \in TokenListsUpTo(b - 1, n - k)}
                        : u \in [1..k -> Tokens]}
                 : k \in 0..n}

TokenLists == TokenListsUpTo(MaxBatch, MaxLen)

InitTokens ==
    /\ pc = "call"
    /\ err = ""
    /\ lines = <<>>
    /\ \E file \in TokenFiles : Loaded(file)
    /\ polyphone = FALSE /\ lang = "" /\ entry = "tokens_to_token_ids"
    /\ texts = <<>> /\ seg = <<>> /\ prev = <<>> /\ char_list = <<>>
    /\ final_text_list = <<>> /\ calls = <<>>
    /\ tokens_list \in TokenLists
    /\ flags \in BOOLEAN \X BOOLEAN \X BOOLEAN
    /\ ret = <<>>

CallTokensToTokenIds ==
    /\ pc = "call"
    /\ ret' = TokensToTokenIds(tokens_list, flags)
    /\ pc' = "done"
    /\ UNCHANGED <<err, lines, tokenizerVars, textVars, tokens_list, flags>>

Next == CallTokensToTokenIds

Spec == InitTokens /\ [][Next]_vars

-----------------------------------------------------------------------------
(* One text converted on its own: lines 75-98 for a single text, given the *)
(* segments of the text.                                                   *)
RECURSIVE ConvertText(_, _, _)
ConvertText(segs, cl, poly) ==
    IF segs = <<>> THEN cl
    ELSE ConvertText(Tail(segs),
                     RewriteSegment(cl, Translate(Head(segs)), poly).char_list,
                     poly)

-----------------------------------------------------------------------------
(* Properties.                                                             *)

Values(m) == {m[t] : t \in DOMAIN m}

Known(tokens) == SelectSeq(tokens, LAMBDA t : t \in DOMAIN token2id)

Returned == pc = "done" /\ entry = "tokens_to_token_ids"

\* C1: every id of every sequence tokens_to_token_ids returns is a value of
\* token2id, whatever the token sequences and the three flags are.
C1_IdsInVocabulary ==
    Returned =>
      \A i \in 1..Len(ret) : \A j \in 1..Len(ret[i]) : ret[i][j] \in Values(token2id)

\* C1 witness: a call with all three flags set whose utterance holds a token
\* of the vocabulary and one outside it.
C1_Witness ==
    /\ Returned
    /\ flags = <<TRUE, TRUE, TRUE>>
    /\ \E i \in 1..Len(tokens_list) :
         /\ \E j \in 1..Len(tokens_list[i]) : tokens_list[i][j] \in DOMAIN token2id
         /\ \E j \in 1..Len(tokens_list[i]) : tokens_list[i][j] \notin DOMAIN token2id

\* C2: with only intersperse_blank set, n >= 2 mapped ids give 2n-1 ids, the
\* mapped ids at the odd places and pad_id at the even places (so never
\* before the first or after the last); 0 or 1 mapped ids are returned as
\* they are.
C2_Interspersion ==
    (Returned /\ flags = <<TRUE, FALSE, FALSE>>) =>
      \A i \in 1..Len(ret) :
        LET known == Known(tokens_list[i])
            n == Len(known)
            r == ret[i]
        IN  IF n >= 2
            THEN /\ Len(r) = 2 * n - 1
                 /\ \A k \in 1..n : r[2 * k - 1] = token2id[known[k]]
                 /\ \A k \in 1..(n - 1) : r[2 * k] = pad_id
            ELSE /\ Len(r) = n
                 /\ \A k \in 1..n : r[k] = token2id[known[k]]

\* C2 witness: an interspersed utterance of three known tokens.
C2_Witness ==
    /\ Returned
    /\ flags = <<TRUE, FALSE, FALSE>>
    /\ \E i \in 1..Len(ret) : Len(Known(tokens_list[i])) = 3 /\ Len(ret[i]) = 5

\* C3: with add_sos and add_eos set the result is two longer than the
\* (optionally interspersed) mapped sequence, starts with sos_id, ends with
\* eos_id, and the ids next to the two markers are the first and the last
\* mapped id, not an inserted pad_id.
C3_SosEosOrder ==
    (Returned /\ flags[2] /\ flags[3]) =>
      \A i \in 1..Len(ret) :
        LET known == Known(tokens_list[i])
            n == Len(known)
            r == ret[i]
        IN  /\ Len(r) = 2 + (IF flags[1] /\ n >= 2 THEN 2 * n - 1 ELSE n)
            /\ r[1] = sos_id
            /\ r[Len(r)] = eos_id
            /\ n >= 1 => /\ r[2] = token2id[known[1]]
                         /\ r[Len(r) - 1] = token2id[known[n]]

\* C3 witness: all three flags set on an utterance of two known tokens that
\* are not the pad token.
C3_Witness ==
    /\ Returned
    /\ flags = <<TRUE, TRUE, TRUE>>
    /\ \E i \in 1..Len(ret) :
         /\ Len(Known(tokens_list[i])) = 2
         /\ Len(ret[i]) = 5
         /\ ret[i][2] # pad_id /\ ret[i][4] # pad_id

\* C4: with the three flags off the call returns, and the output of an
\* utterance is the ids of its tokens that are in the vocabulary, one each,
\* in their order; a token outside the vocabulary gives nothing.
C4_SilentDrop ==
    (Returned /\ flags = <<FALSE, FALSE, FALSE>>) =>
      /\ Len(ret) = Len(tokens_list)
      /\ \A i \in 1..Len(ret) :
           LET known == Known(tokens_list[i]) IN
             /\ Len(ret[i]) = Len(known)
             /\ \A k \in 1..Len(known) : ret[i][k] = token2id[known[k]]

\* C4 witness: flags off, an utterance with an unknown token between two
\* known tokens of different ids.
C4_Witness ==
    /\ Returned
    /\ flags = <<FALSE, FALSE, FALSE>>
    /\ \E i \in 1..Len(ret) :
         /\ Len(tokens_list[i]) = 3
         /\ tokens_list[i][2] \notin DOMAIN token2id
         /\ Len(ret[i]) = 2
         /\ ret[i][1] # ret[i][2]

\* C5: for lang "cmn" or "zh-cn", texts_to_token_ids returns one id sequence
\* per text, in order, and the i-th is what the i-th text gives when it is
\* converted and mapped on its own.
C5_PerTextIndependence ==
    (pc = "done" /\ entry = "texts_to_token_ids" /\ lang \in ChineseLangs) =>
      /\ Len(ret) = Len(texts)
      /\ \A i \in 1..Len(texts) :
           ret[i] = TokenIds(ConvertText(texts[i], <<>>, TRUE), flags)

\* C5 witness: a batch of two texts, the first emitting an injected
\* separator and a syllable, the second losing a token to the vocabulary.
C5_Witness ==
    /\ pc = "done" /\ entry = "texts_to_token_ids" /\ lang = "zh-cn"
    /\ flags = <<FALSE, FALSE, FALSE>>
    /\ Len(texts) = 2
    /\ texts[1] = <<Str(chNi)>>
    /\ Len(ret[1]) = 2
    /\ texts[2] = <<Str(chFwComma), Str(chA)>>
    /\ Len(ret[2]) = 1

Iterated == pc = "for_seg" /\ seg # <<>>

IsLatinClass(s) == ByteLen(s) = Len(s)
IsCJKClass(s) == ByteLen(s) = 3 * Len(s)

Chars(s) == [i \in 1..Len(s) |-> Str(s[i])]

\* C7 as stated: a Latin-class segment is emitted character by character,
\* after a " " whenever the previous token is neither " " nor a quote
\* character, and with no " " when it is the first thing emitted.
C7_AsStated ==
    (Iterated /\ IsLatinClass(seg)) =>
      /\ (prev # <<>> /\ prev[Len(prev)] \notin {Str(chSpace), Str(chQuote), Str(chApos)})
           => char_list = Append(prev, Str(chSpace)) \o Chars(seg)
      /\ prev = <<>> => char_list = Chars(seg)

\* C7 amended: a Latin-class segment is emitted character by character, and
\* a " " is put before it exactly when something was already emitted for
\* the text, the segment has more than one character and the previous
\* token is none of " ", ":", "'" and '"'.
C7_LatinSeparator ==
    (Iterated /\ IsLatinClass(seg)) =>
      char_list =
        (IF /\ prev # <<>>
            /\ Len(seg) > 1
            /\ prev[Len(prev)] \notin
                 {Str(chSpace), Str(chColon), Str(chApos), Str(chQuote)}
         THEN Append(prev, Str(chSpace)) ELSE prev) \o Chars(seg)

\* C7 witness: a two-character Latin segment after a romanized syllable,
\* with the separator put in.
C7_Witness ==
    /\ Iterated
    /\ seg = <<chA, chA>>
    /\ prev = <<Str(chSpace), sNi3>>
    /\ char_list = <<Str(chSpace), sNi3, Str(chSpace), Str(chA), Str(chA)>>

\* C8: a segment whose byte length is three times its length has only
\* three-byte characters, and a segment's byte length equals its length
\* exactly when all its characters are single-byte.
C8_ByteLengthClasses ==
    Iterated =>
      /\ IsCJKClass(seg) => \A i \in 1..Len(seg) : Utf8Len(seg[i]) = 3
      /\ IsLatinClass(seg) <=> \A i \in 1..Len(seg) : Utf8Len(seg[i]) = 1

InRange(c) == U3100 <= c /\ c <= U9FFF

InRangeChars(s) == Chars(SelectSeq(s, InRange))

\* C9 as stated: a pure-CJK segment (here: one whose characters all lie in
\* U+3100..U+9FFF) is given to the romanizer whatever polyphone is, and with
\* polyphone false no character of a mixed segment is given to the
\* romanizer.
C9_AsStated ==
    Iterated =>
      /\ (IsCJKClass(seg) /\ \A i \in 1..Len(seg) : InRange(seg[i]))
           => calls = <<seg>>
      /\ (~polyphone /\ ~IsLatinClass(seg) /\ ~IsCJKClass(seg)) => calls = <<>>

\* C9 amended: a pure-CJK segment is given to the romanizer as a whole only
\* when polyphone is true; with polyphone false it is handled like a mixed
\* segment, and in a mixed segment every character in U+3100..U+9FFF is
\* given to the romanizer on its own, whatever polyphone is.
C9_PolyphoneGate ==
    (Iterated /\ ~IsLatinClass(seg)) =>
      calls = IF polyphone /\ IsCJKClass(seg) THEN <<seg>> ELSE InRangeChars(seg)

\* C9 witness: polyphone false and a pure-CJK segment of two characters,
\* each given to the romanizer on its own.
C9_Witness ==
    /\ Iterated
    /\ ~polyphone
    /\ seg = <<chNi, chNi>>
    /\ calls = <<Str(chNi), Str(chNi)>>
    /\ char_list = prev \o <<Str(chSpace), sNi3, Str(chSpace), sNi3>>

\* Characters of s[1..i] that lie in U+3100..U+9FFF.
InRangeUpTo(s, i) == Cardinality({j \in 1..i : InRange(s[j])})

\* C10: with polyphone true a CJK-class segment of n characters adds, in
\* order, one romanized syllable per character, with " " right before the
\* syllable of exactly the characters in U+3100..U+9FFF.
C10_SyllablePerCharacter ==
    (Iterated /\ polyphone /\ IsCJKClass(seg)) =>
      LET n == Len(seg)
          base == Len(prev)
          at(i) == base + i + InRangeUpTo(seg, i)
      IN  /\ Len(char_list) = base + n + InRangeUpTo(seg, n)
          /\ SubSeq(char_list, 1, base) = prev
          /\ \A i \in 1..n :
               /\ char_list[at(i)] = lazy_pinyin(seg)[i]
               /\ InRange(seg[i]) => char_list[at(i) - 1] = Str(chSpace)

\* C10 witness: polyphone true, a segment of a character in the range and a
\* three-byte character outside it.
C10_Witness ==
    /\ Iterated
    /\ polyphone
    /\ seg = <<chFwComma, chNi>>
    /\ char_list = prev \o <<Str(chFwComma), Str(chSpace), sNi3>>

-----------------------------------------------------------------------------
\* The token a line of the token file names: " " for a line of one field.
LineToken(info) == IF Len(info) = 1 THEN Str(chSpace) ELSE info[1]

LinesOf(token) ==
    {i \in 1..Len(lines) : Len(lines[i]) >= 1 /\ LineToken(lines[i]) = token}

ListedId(token) ==
    LET info == lines[CHOOSE i \in LinesOf(token) : TRUE]
    IN  IntOf(IF Len(info) = 1 THEN info[1] ELSE info[2])

\* C6: a file in which a token is on more than one line, or in which one of
\* "_", "^", "$", " " is on no line, gives no Tokenizer; when one is built,
\* vocab_size is the number of lines and the four ids are the listed ones.
C6_Construction ==
    /\ (\E i, j \in 1..Len(lines) :
          /\ i < j
          /\ Len(lines[i]) >= 1 /\ Len(lines[j]) >= 1
          /\ LineToken(lines[i]) = LineToken(lines[j])) => pc = "failed"
    /\ pc = "failed" => vocab_size = None
    /\ pc = "done" =>
         /\ \A t \in Reserved : LinesOf(t) # {}
         /\ vocab_size = Len(lines)
         /\ pad_id = ListedId(Str(chUnder))
         /\ sos_id = ListedId(Str(chCaret))
         /\ eos_id = ListedId(Str(chDollar))
         /\ space_id = ListedId(Str(chSpace))

\* C6 witness: the four reserved tokens are listed and a second line of one
\* field names the space token again.
C6_Witness ==
    /\ pc = "failed"
    /\ err = "AssertionError"
    /\ Len(lines) = 5
    /\ \A t \in Reserved : LinesOf(t) # {}
    /\ Len(lines[4]) = 1 /\ Len(lines[5]) = 1

=============================================================================
